---------------------------- MODULE Spec2Model ----------------------------
(***************************************************************************)
(* Model of pg_utils/pg_model/base.py: LabeledCollection,                  *)
(* LabeledSubCollection, CollectionPG, map_collection and map_PG_fields.   *)
(*                                                                         *)
(* Objects live in `heap` (collections) and `views` (sub-collections); a   *)
(* sub-collection holds the heap index of its base, so that aliasing is a  *)
(* fact of the model and not an assumption.  Python exceptions are the     *)
(* `status` of an operation's outcome.                                     *)
(***************************************************************************)
EXTENDS Integers, Sequences, FiniteSets, TLC

VARIABLES heap, views, origin, loops, last, budget

vars == <<heap, views, origin, loops, last, budget>>

---------------------------------------------------------------------------
(* Values.  A slot holds an opaque expression or None.                     *)

None == "None"

Vals == {None, "x1", "x2"}

\* The schema of CollectionPG.
pg_field_names ==
    << "Psi",
       "Mss", "Mpp", "Msp", "Msz", "Mpz", "zMss", "zMpp", "zMsp",
       "Bs_e", "Bp_e", "Bz_e", "dBs_dz_e", "dBp_dz_e",
       "Br_b", "Bs_p", "Bp_p", "Bz_p", "Bs_m", "Bp_m", "Bz_m" >>

\* Attributes every collection instance or its class has besides its fields.
OwnAttrs ==
    {"_is_locked", "_field_names", "n_fields", "_iter_name", "_iter_filter",
     "n_iter", "iter_name", "iter_filter", "apply", "copy",
     "generate_collection", "pg_field_names"}

Range(seq) == {seq[i] : i \in 1..Len(seq)}

---------------------------------------------------------------------------
(* Python sequence indexing and slicing.                                   *)

\* seq[idx] raises IndexError unless -len <= idx < len.
PyIndexOK(seq, idx) == -Len(seq) <= idx /\ idx < Len(seq)

PyIndex(seq, idx) == IF idx >= 0 THEN seq[idx + 1] ELSE seq[Len(seq) + idx + 1]

\* A slice bound is << >> (None) or <<n>>.
PySliceBound(n, b, dflt) ==
    IF b = << >> THEN dflt
    ELSE IF b[1] < 0 THEN (IF n + b[1] < 0 THEN 0 ELSE n + b[1])
    ELSE IF b[1] > n THEN n ELSE b[1]

\* seq[start:stop], 0-based bounds, step 1.
PySlice(seq, sl) ==
    LET n  == Len(seq)
        lo == PySliceBound(n, sl.start, 0)
        hi == PySliceBound(n, sl.stop, n)
    IN  IF hi <= lo THEN << >> ELSE SubSeq(seq, lo + 1, hi)

slice(start, stop) == [start |-> start, stop |-> stop]

\* list(range(n))
PyRange(n) == [i \in 1..n |-> i - 1]

---------------------------------------------------------------------------
(* Keys of __getitem__ / __setitem__: an int, a str, a slice, or anything   *)
(* else.                                                                   *)

IntKey(i)   == [kind |-> "int",   i |-> i, s |-> "",  sl |-> slice(<< >>, << >>)]
StrKey(s)   == [kind |-> "str",   i |-> 0, s |-> s,   sl |-> slice(<< >>, << >>)]
SliceKey(sl) == [kind |-> "slice", i |-> 0, s |-> "", sl |-> sl]
OtherKey    == [kind |-> "other", i |-> 0, s |-> "",  sl |-> slice(<< >>, << >>)]

\* The outcome of a call: the exception raised ("ok" when none), the value
\* returned, and the receiver after the call.
Outcome(status, val, obj) == [status |-> status, val |-> val, obj |-> obj]

---------------------------------------------------------------------------
(* LabeledCollection                                                       *)

\* hasattr(self, name)
hasattr(obj, name) == name \in DOMAIN obj.attrs \/ name \in OwnAttrs

\* __setattr__ without the check of _is_locked.
setattr_unlocked(obj, name, value) ==
    Outcome("ok", None,
        [obj EXCEPT !.attrs =
            IF name \in DOMAIN obj.attrs
            THEN [obj.attrs EXCEPT ![name] = value]
            ELSE (name :> value) @@ obj.attrs])

\* LabeledCollection.__setattr__ for a name that is not one of OwnAttrs.
setattr(obj, name, value) ==
    IF obj._is_locked /\ ~hasattr(obj, name)
    THEN Outcome("AttributeError", None, obj)
    ELSE Outcome("ok", None,
            [obj EXCEPT !.attrs =
                IF name \in DOMAIN obj.attrs
                THEN [obj.attrs EXCEPT ![name] = value]
                ELSE (name :> value) @@ obj.attrs])

\* Keys of fields that are not in names ignored instead of rejected.
validate_field_entries_ignoring(names, fields) == TRUE

\* _validate_field_entries: TypeError when a key of fields is not in names.
validate_field_entries(names, fields) ==
    \A field_key \in DOMAIN fields : field_key \in Range(names)

\* The loop of __init__ that assigns the fields one by one, in schema order.
RECURSIVE init_fields(_, _, _, _)
init_fields(obj, names, fields, k) ==
    IF k > Len(names) THEN obj
    ELSE LET field_key == names[k]
             value == IF field_key \in DOMAIN fields
                      THEN fields[field_key] ELSE None
         IN  init_fields(setattr(obj, field_key, value).obj, names, fields, k + 1)

\* LabeledCollection.__init__(names, **fields) as a class `cls`.
LabeledCollection_init(cls, names, fields) ==
    IF ~validate_field_entries(names, fields)
    THEN Outcome("TypeError", None, << >>)
    ELSE Outcome("ok", None,
            [ init_fields(
                [cls |-> cls, _field_names |-> names, attrs |-> << >>,
                 _is_locked |-> FALSE, n_fields |-> 0,
                 _iter_name |-> FALSE, _iter_filter |-> FALSE, n_iter |-> 0],
                names, fields, 1)
              EXCEPT !.n_fields = Len(names) ])

\* _disable_attribute_addition
disable_attribute_addition(obj) == [obj EXCEPT !._is_locked = TRUE]

\* CollectionPG.__init__(**fields)
CollectionPG_init(fields) ==
    LET r == LabeledCollection_init("CollectionPG", pg_field_names, fields)
    IN  IF r.status # "ok" THEN r
        ELSE Outcome("ok", None, disable_attribute_addition(r.obj))

\* _getitem_by_name
getitem_by_name(obj, name) ==
    IF name \in Range(obj._field_names)
    THEN Outcome("ok", obj.attrs[name], obj)
    ELSE Outcome("KeyError", None, obj)

\* _getitem_by_idx
getitem_by_idx(obj, idx) ==
    IF ~PyIndexOK(obj._field_names, idx)
    THEN Outcome("IndexError", None, obj)
    ELSE getitem_by_name(obj, PyIndex(obj._field_names, idx))

\* _getitem_by_slice: the list of the items of the names in the slice.
getitem_by_slice(obj, sl) ==
    LET name_list == PySlice(obj._field_names, sl)
    IN  Outcome("ok",
                [k \in 1..Len(name_list) |-> getitem_by_name(obj, name_list[k]).val],
                obj)

\* __getitem__
getitem(obj, key) ==
    CASE key.kind = "int"   -> getitem_by_idx(obj, key.i)
      [] key.kind = "slice" -> getitem_by_slice(obj, key.sl)
      [] key.kind = "str"   -> getitem_by_name(obj, key.s)
      [] OTHER              -> Outcome("TypeError", None, obj)

\* _setitem_by_name assigning whatever the name is.
setitem_by_name_any(obj, name, val) == setattr(obj, name, val)

\* _setitem_by_name
setitem_by_name(obj, name, val) ==
    IF name \in Range(obj._field_names)
    THEN setattr(obj, name, val)
    ELSE Outcome("KeyError", None, obj)

\* _setitem_by_idx
setitem_by_idx(obj, idx, val) ==
    IF ~PyIndexOK(obj._field_names, idx)
    THEN Outcome("IndexError", None, obj)
    ELSE setitem_by_name(obj, PyIndex(obj._field_names, idx), val)

\* __setitem__: any other kind of key returns (does not raise) TypeError.
setitem(obj, key, val) ==
    CASE key.kind = "int" -> setitem_by_idx(obj, key.i, val)
      [] key.kind = "str" -> setitem_by_name(obj, key.s, val)
      [] OTHER            -> Outcome("ok", "TypeError", obj)

\* The iter_name / iter_filter setters: TypeError unless the option is a
\* bool.  An option is [isbool, b].
set_iter_name(self, option) ==
    IF ~option.isbool THEN Outcome("TypeError", None, self)
    ELSE Outcome("ok", None, [self EXCEPT !._iter_name = option.b])

set_iter_filter(self, option) ==
    IF ~option.isbool THEN Outcome("TypeError", None, self)
    ELSE Outcome("ok", None, [self EXCEPT !._iter_filter = option.b])

\* __iter__ leaving the cursor where it is.
iter_resuming(self) == self

\* LabeledCollection.__iter__
iter(self) == [self EXCEPT !.n_iter = 0]

\* __next__ ending the loop at an unset field under iter_filter.
next_ending_at_unset(self) ==
    IF self.n_iter < self.n_fields
    THEN LET got   == getitem_by_idx(self, self.n_iter)
             moved == [self EXCEPT !.n_iter = self.n_iter + 1]
         IN  IF self._iter_filter /\ got.val = None
             THEN Outcome("StopIteration", << >>, moved)
             ELSE Outcome("ok", <<got.val>>, moved)
    ELSE Outcome("StopIteration", << >>, self)

\* LabeledCollection.__next__.  An item is <<value>>, or <<name, value>> with
\* iter_name; obj is the collection as the call leaves it.
RECURSIVE next(_)
next(self) ==
    IF self.n_iter < self.n_fields
    THEN LET got   == getitem_by_idx(self, self.n_iter)
             moved == [self EXCEPT !.n_iter = self.n_iter + 1]
         IN  IF got.status # "ok" THEN Outcome(got.status, << >>, self)
             ELSE IF self._iter_filter /\ got.val = None THEN next(moved)
             ELSE IF self._iter_name
                  THEN IF PyIndexOK(self._field_names, moved.n_iter)
                       THEN Outcome("ok",
                                <<PyIndex(self._field_names, moved.n_iter), got.val>>,
                                moved)
                       ELSE Outcome("IndexError", << >>, moved)
             ELSE Outcome("ok", <<got.val>>, moved)
    ELSE Outcome("StopIteration", << >>, self)

\* The loop of apply: apply_to[i_field] = fun(self[i_field]), or
\* fun(name, self[i_field]) with metadata.  `self` is the receiver as the loop
\* reads it: apply_to itself when inplace.  `written` is apply_to after the
\* assignment of this round.
RECURSIVE apply_loop(_, _, _, _, _, _)
apply_loop(self, apply_to, fun, inplace, metadata, i_field) ==
    IF i_field >= self.n_fields THEN apply_to
    ELSE LET src  == IF inplace THEN apply_to ELSE self
             item == getitem(src, IntKey(i_field)).val
             res  == IF metadata
                     THEN fun[<<PyIndex(src._field_names, i_field), item>>]
                     ELSE fun[item]
         IN  CHOOSE result \in
                 { apply_loop(self, written, fun, inplace, metadata, i_field + 1) :
                     written \in {setitem(apply_to, IntKey(i_field), res).obj} } :
                 TRUE

\* LabeledCollection._new_obj and its override CollectionPG._new_obj
new_obj(self) ==
    IF self.cls = "CollectionPG"
    THEN CollectionPG_init(<< >>).obj
    ELSE LabeledCollection_init("LabeledCollection", self._field_names, << >>).obj

\* The loop of apply beginning at the second field.
apply_from_second(self, fun, inplace, metadata) ==
    apply_loop(self, IF inplace THEN self ELSE new_obj(self),
               fun, inplace, metadata, 1)

\* LabeledCollection.apply / CollectionPG.apply: the collection written to.
apply(self, fun, inplace, metadata) ==
    apply_loop(self, IF inplace THEN self ELSE new_obj(self),
               fun, inplace, metadata, 0)

\* {fname: self[fname] for fname in names}
fields_of(self, names) ==
    [fname \in Range(names) |-> getitem(self, StrKey(fname)).val]

\* LabeledCollection.copy and its override CollectionPG.copy
copy(self) ==
    IF self.cls = "CollectionPG"
    THEN CollectionPG_init(fields_of(self, self._field_names))
    ELSE LabeledCollection_init("LabeledCollection", self._field_names,
                                fields_of(self, self._field_names))

\* The names at the false positions of index_array.
RECURSIVE select_names_negated(_, _, _)
select_names_negated(names, index_array, k) ==
    IF k > Len(names) THEN << >>
    ELSE (IF index_array[k] THEN << >> ELSE <<names[k]>>)
             \o select_names_negated(names, index_array, k + 1)

\* [fname for idx, fname in enumerate(names) if index_array[idx]]
RECURSIVE select_names(_, _, _)
select_names(names, index_array, k) ==
    IF k > Len(names) THEN << >>
    ELSE (IF index_array[k] THEN <<names[k]>> ELSE << >>)
             \o select_names(names, index_array, k + 1)

\* LabeledCollection.generate_collection
generate_collection(self, index_array) ==
    IF Len(index_array) # self.n_fields
    THEN Outcome("AssertionError", None, << >>)
    ELSE LET new_names == select_names(self._field_names, index_array, 1)
         IN  LabeledCollection_init("LabeledCollection", new_names,
                                    fields_of(self, new_names))

\* A dict comprehension over k = 1..n: later keys replace earlier equal keys.
RECURSIVE dict_of(_, _, _, _)
dict_of(keys, values, k, d) ==
    IF k > Len(keys) THEN d
    ELSE dict_of(keys, values, k + 1, (keys[k] :> values[k]) @@ d)

\* map_collection without the comparison of the field names.
map_collection_unchecked(maps_from, maps_to) ==
    LET names == maps_to._field_names
    IN  Outcome("ok",
           dict_of([k \in 1..Len(names) |-> getitem(maps_from, StrKey(names[k])).val],
                   [k \in 1..Len(names) |-> getitem(maps_to, StrKey(names[k])).val],
                   1, << >>),
           << >>)

\* map_collection(maps_from, maps_to)
map_collection(maps_from, maps_to) ==
    IF maps_from._field_names # maps_to._field_names
    THEN Outcome("AssertionError", None, << >>)
    ELSE LET names == maps_to._field_names
         IN  Outcome("ok",
                dict_of([k \in 1..Len(names) |-> getitem(maps_from, StrKey(names[k])).val],
                        [k \in 1..Len(names) |-> getitem(maps_to, StrKey(names[k])).val],
                        1, << >>),
                << >>)

\* map_PG_fields over the positions the two collections both have.
map_PG_fields_truncated(maps_from, maps_to) ==
    LET n == IF maps_to.n_fields < maps_from.n_fields
             THEN maps_to.n_fields ELSE maps_from.n_fields
    IN  Outcome("ok",
           dict_of([k \in 1..n |-> getitem(maps_from, IntKey(k - 1)).val],
                   [k \in 1..n |-> getitem(maps_to, IntKey(k - 1)).val],
                   1, << >>),
           << >>)

\* map_PG_fields(maps_from, maps_to): the first failing maps_to[i_field]
\* raises IndexError.
map_PG_fields(maps_from, maps_to) ==
    LET n == maps_from.n_fields
    IN  IF \E i \in 0..(n - 1) : getitem(maps_to, IntKey(i)).status # "ok"
        THEN Outcome("IndexError", None, << >>)
        ELSE Outcome("ok",
                dict_of([k \in 1..n |-> getitem(maps_from, IntKey(k - 1)).val],
                        [k \in 1..n |-> getitem(maps_to, IntKey(k - 1)).val],
                        1, << >>),
                << >>)

---------------------------------------------------------------------------
(* LabeledSubCollection                                                    *)

\* LabeledSubCollection.__init__(base_collection, sub_slice); `base` is the
\* heap index of the base collection.
LabeledSubCollection_init(base, sub_slice) ==
    LET sub_names == PySlice(heap[base]._field_names, sub_slice)
    IN  [base_collection |-> base,
         _sub_names |-> sub_names,
         _sub_idx |-> PySlice(PyRange(heap[base].n_fields), sub_slice),
         n_fields |-> Len(sub_names),
         _iter_name |-> FALSE, _iter_filter |-> FALSE,
         has_n_iter |-> FALSE, n_iter |-> 0]

\* The slices of CollectionPG.subset_mag, subset_moments, subset_B_equator,
\* subset_B_bound and subset_B_bound_cyl.
subset_slice ==
    [ subset_mag         |-> slice(<<1>>, << >>),
      subset_moments     |-> slice(<<1>>, <<9>>),
      subset_B_equator   |-> slice(<<9>>, <<14>>),
      subset_B_bound     |-> slice(<<14>>, << >>),
      subset_B_bound_cyl |-> slice(<<15>>, << >>) ]

SubsetKinds == DOMAIN subset_slice

\* LabeledSubCollection._getitem_by_name against the base `b`.
sub_getitem_by_name(view, b, name) ==
    IF name \in Range(view._sub_names)
    THEN getitem_by_name(b, name)
    ELSE Outcome("KeyError", None, b)

\* LabeledSubCollection._getitem_by_idx
sub_getitem_by_idx(view, b, idx) ==
    IF ~PyIndexOK(view._sub_names, idx)
    THEN Outcome("IndexError", None, b)
    ELSE getitem_by_name(b, PyIndex(view._sub_names, idx))

\* LabeledSubCollection._getitem_by_slice
sub_getitem_by_slice(view, b, sl) ==
    LET name_list == PySlice(view._sub_names, sl)
    IN  Outcome("ok",
                [k \in 1..Len(name_list) |-> getitem_by_name(b, name_list[k]).val],
                b)

\* LabeledSubCollection.__getitem__
sub_getitem(view, b, key) ==
    CASE key.kind = "int"   -> sub_getitem_by_idx(view, b, key.i)
      [] key.kind = "slice" -> sub_getitem_by_slice(view, b, key.sl)
      [] key.kind = "str"   -> sub_getitem_by_name(view, b, key.s)
      [] OTHER              -> Outcome("TypeError", None, b)

\* LabeledSubCollection._setitem_by_name
sub_setitem_by_name(view, b, name, val) ==
    IF name \in Range(view._sub_names)
    THEN setitem_by_name(b, name, val)
    ELSE Outcome("KeyError", None, b)

\* The index taken as a position of the base instead of the view.
sub_setitem_by_idx_unshifted(view, b, idx, val) ==
    IF ~PyIndexOK(view._sub_names, idx)
    THEN Outcome("IndexError", None, b)
    ELSE setitem_by_idx(b, idx, val)

\* LabeledSubCollection._setitem_by_idx
sub_setitem_by_idx(view, b, idx, val) ==
    IF ~PyIndexOK(view._sub_names, idx)
    THEN Outcome("IndexError", None, b)
    ELSE setitem_by_name(b, PyIndex(view._sub_names, idx), val)

\* LabeledSubCollection.__setitem__
sub_setitem(view, b, key, val) ==
    CASE key.kind = "int" -> sub_setitem_by_idx(view, b, key.i, val)
      [] key.kind = "str" -> sub_setitem_by_name(view, b, key.s, val)
      [] OTHER            -> Outcome("ok", "TypeError", b)

\* LabeledSubCollection.__iter__
sub_iter(view) == [view EXCEPT !.has_n_iter = TRUE, !.n_iter = 0]

\* LabeledSubCollection.__next__ against the base `b`; obj is the view as the
\* call leaves it.  A sub-collection has no n_iter before its first __iter__,
\* and no _field_names at all.
RECURSIVE sub_next(_, _)
sub_next(view, b) ==
    IF ~view.has_n_iter THEN Outcome("AttributeError", << >>, view)
    ELSE IF view.n_iter < view.n_fields
    THEN LET got   == sub_getitem_by_idx(view, b, view.n_iter)
             moved == [view EXCEPT !.n_iter = view.n_iter + 1]
         IN  IF got.status # "ok" THEN Outcome(got.status, << >>, view)
             ELSE IF view._iter_filter /\ got.val = None THEN sub_next(moved, b)
             ELSE IF view._iter_name THEN Outcome("AttributeError", << >>, moved)
             ELSE Outcome("ok", <<got.val>>, moved)
    ELSE Outcome("StopIteration", << >>, view)

---------------------------------------------------------------------------
(* State and operations.                                                   *)
(*   heap   : the collections created so far                               *)
(*   views  : the sub-collections created so far                           *)
(*   origin : for each collection, the operation that created it and the   *)
(*            collection it was created from (0 when none)                 *)
(*   loops  : the for-loops started so far                                 *)
(*   last   : the last call, its arguments and its outcome                 *)
(*   budget : the number of calls the run may still make                   *)

Call(op, status, isview, target, key, val, arg, ret) ==
    [op |-> op, status |-> status, isview |-> isview, target |-> target,
     key |-> key, val |-> val, arg |-> arg, ret |-> ret]

NoCall == Call("none", "ok", FALSE, 0, OtherKey, None, << >>, << >>)

\* How a collection came to be: the call, the collection it was made from
\* (0 when none) and the names it was constructed with.
Made(op, src, names) == [op |-> op, src |-> src, names |-> names]

\* The names _new_obj and copy construct the new collection with.
ConstructedWith(self) ==
    IF self.cls = "CollectionPG" THEN pg_field_names ELSE self._field_names

\* One more call of the run.
Tick == budget > 0 /\ budget' = budget - 1

\* The instance a loop runs over, as it is now.
Instance(isview, target) == IF isview THEN views[target] ELSE heap[target]

\* The running loops over an instance, but loop l, are disturbed by a call
\* that moves the cursor of the instance or changes what its loops yield.
Disturb(isview, target, l) ==
    [k \in 1..Len(loops) |->
        IF k # l /\ loops[k].isview = isview /\ loops[k].target = target
           /\ loops[k].status = "running"
        THEN [loops[k] EXCEPT !.clean = FALSE] ELSE loops[k]]

\* c[key] = val on collection o.
SetItem(o, key, val) ==
    /\ LET r == setitem(heap[o], key, val)
       IN  /\ heap' = [heap EXCEPT ![o] = r.obj]
           /\ last' = Call("set", r.status, FALSE, o, key, val, << >>, r.val)
    /\ UNCHANGED <<views, origin, loops>>

\* c[key] on collection o.
GetItem(o, key) ==
    /\ LET r == getitem(heap[o], key)
       IN  last' = Call("get", r.status, FALSE, o, key, None, << >>, r.val)
    /\ UNCHANGED <<heap, views, origin, loops>>

\* v[key] = val on sub-collection v.
ViewSetItem(v, key, val) ==
    /\ LET b == views[v].base_collection
           r == sub_setitem(views[v], heap[b], key, val)
       IN  /\ heap' = [heap EXCEPT ![b] = r.obj]
           /\ last' = Call("set", r.status, TRUE, v, key, val, << >>, r.val)
    /\ UNCHANGED <<views, origin, loops>>

\* v[key] on sub-collection v.
ViewGetItem(v, key) ==
    /\ LET b == views[v].base_collection
           r == sub_getitem(views[v], heap[b], key)
       IN  last' = Call("get", r.status, TRUE, v, key, None, << >>, r.val)
    /\ UNCHANGED <<heap, views, origin, loops>>

\* c._extract_subset(sub_slice), as called by the subset_* accessors.
ExtractSubset(o, sub_slice) ==
    /\ views' = Append(views, LabeledSubCollection_init(o, sub_slice))
    /\ last' = Call("subset", "ok", FALSE, o, SliceKey(sub_slice), None,
                    << >>, Len(views) + 1)
    /\ UNCHANGED <<heap, origin, loops>>

\* LabeledCollection(names, **fields)
NewLabeledCollection(names, fields) ==
    /\ LET r == LabeledCollection_init("LabeledCollection", names, fields)
       IN  /\ heap' = IF r.status = "ok" THEN Append(heap, r.obj) ELSE heap
           /\ origin' = IF r.status = "ok"
                        THEN Append(origin, Made("new", 0, names)) ELSE origin
           /\ last' = Call("new", r.status, FALSE, 0, OtherKey, None,
                           [cls |-> "LabeledCollection", names |-> names,
                            fields |-> fields],
                           IF r.status = "ok" THEN Len(heap) + 1 ELSE 0)
    /\ UNCHANGED <<views, loops>>

\* CollectionPG(**fields)
NewCollectionPG(fields) ==
    /\ LET r == CollectionPG_init(fields)
       IN  /\ heap' = IF r.status = "ok" THEN Append(heap, r.obj) ELSE heap
           /\ origin' = IF r.status = "ok"
                        THEN Append(origin, Made("new", 0, pg_field_names))
                        ELSE origin
           /\ last' = Call("new", r.status, FALSE, 0, OtherKey, None,
                           [cls |-> "CollectionPG", names |-> pg_field_names,
                            fields |-> fields],
                           IF r.status = "ok" THEN Len(heap) + 1 ELSE 0)
    /\ UNCHANGED <<views, loops>>

\* c._disable_attribute_addition()
Freeze(o) ==
    /\ heap' = [heap EXCEPT ![o] = disable_attribute_addition(heap[o])]
    /\ last' = Call("freeze", "ok", FALSE, o, OtherKey, None, << >>, << >>)
    /\ UNCHANGED <<views, origin, loops>>

\* c.name = val
SetAttr(o, name, val) ==
    /\ LET r == setattr(heap[o], name, val)
       IN  /\ heap' = [heap EXCEPT ![o] = r.obj]
           /\ last' = Call("setattr", r.status, FALSE, o, StrKey(name), val,
                           << >>, << >>)
    /\ UNCHANGED <<views, origin, loops>>

\* c.apply(fun, inplace, metadata)
Apply(o, fun, inplace, metadata) ==
    /\ LET r == apply(heap[o], fun, inplace, metadata)
       IN  /\ heap' = IF inplace THEN [heap EXCEPT ![o] = r] ELSE Append(heap, r)
           /\ origin' = IF inplace THEN origin
                        ELSE Append(origin, Made("apply", o, ConstructedWith(heap[o])))
           /\ last' = Call("apply", "ok", FALSE, o, OtherKey, None,
                           [fun |-> fun, inplace |-> inplace,
                            metadata |-> metadata],
                           IF inplace THEN o ELSE Len(heap) + 1)
    /\ UNCHANGED <<views, loops>>

\* c.copy() returning the collection itself.
Copy_itself(o) ==
    /\ last' = Call("copy", "ok", FALSE, o, OtherKey, None, << >>, o)
    /\ UNCHANGED <<heap, views, origin, loops>>

\* c.copy()
Copy(o) ==
    /\ LET r == copy(heap[o])
       IN  /\ heap' = Append(heap, r.obj)
           /\ origin' = Append(origin, Made("copy", o, ConstructedWith(heap[o])))
           /\ last' = Call("copy", r.status, FALSE, o, OtherKey, None, << >>,
                           Len(heap) + 1)
    /\ UNCHANGED <<views, loops>>

\* c.generate_collection(index_array)
GenerateCollection(o, index_array) ==
    /\ LET r == generate_collection(heap[o], index_array)
       IN  /\ heap' = IF r.status = "ok" THEN Append(heap, r.obj) ELSE heap
           /\ origin' = IF r.status = "ok"
                        THEN Append(origin,
                                    Made("generate", o, r.obj._field_names))
                        ELSE origin
           /\ last' = Call("generate", r.status, FALSE, o, OtherKey, None,
                           index_array,
                           IF r.status = "ok" THEN Len(heap) + 1 ELSE 0)
    /\ UNCHANGED <<views, loops>>

\* map_collection(a, b)
MapCollection(a, b) ==
    /\ LET r == map_collection(heap[a], heap[b])
       IN  last' = Call("map_collection", r.status, FALSE, a, OtherKey, None,
                        b, r.val)
    /\ UNCHANGED <<heap, views, origin, loops>>

\* map_PG_fields(a, b)
MapPGFields(a, b) ==
    /\ LET r == map_PG_fields(heap[a], heap[b])
       IN  last' = Call("map_PG_fields", r.status, FALSE, a, OtherKey, None,
                        b, r.val)
    /\ UNCHANGED <<heap, views, origin, loops>>

\* c.iter_name = option, on a collection or a sub-collection.
SetIterName(isview, target, option) ==
    /\ LET r == set_iter_name(Instance(isview, target), option)
       IN  /\ heap' = IF isview THEN heap ELSE [heap EXCEPT ![target] = r.obj]
           /\ views' = IF isview THEN [views EXCEPT ![target] = r.obj] ELSE views
           /\ last' = Call("iter_name", r.status, isview, target, OtherKey,
                           None, option, << >>)
    /\ loops' = Disturb(isview, target, 0)
    /\ UNCHANGED origin

\* c.iter_filter = option, on a collection or a sub-collection.
SetIterFilter(isview, target, option) ==
    /\ LET r == set_iter_filter(Instance(isview, target), option)
       IN  /\ heap' = IF isview THEN heap ELSE [heap EXCEPT ![target] = r.obj]
           /\ views' = IF isview THEN [views EXCEPT ![target] = r.obj] ELSE views
           /\ last' = Call("iter_filter", r.status, isview, target, OtherKey,
                           None, option, << >>)
    /\ loops' = Disturb(isview, target, 0)
    /\ UNCHANGED origin

\* A for-loop over a collection or a sub-collection begins: iter(c).
IterStart(isview, target) ==
    /\ heap' = IF isview THEN heap ELSE [heap EXCEPT ![target] = iter(heap[target])]
    /\ views' = IF isview THEN [views EXCEPT ![target] = sub_iter(views[target])]
                ELSE views
    /\ loops' = Append(Disturb(isview, target, 0),
                       [isview |-> isview, target |-> target, out |-> << >>,
                        status |-> "running", clean |-> TRUE])
    /\ last' = Call("iter", "ok", isview, target, OtherKey, None, << >>,
                    Len(loops) + 1)
    /\ UNCHANGED origin

\* The running loop l asks for its next item: next(c).  StopIteration ends
\* the loop normally, any other exception aborts it.
IterNext(l) ==
    /\ loops[l].status = "running"
    /\ LET isview == loops[l].isview
           target == loops[l].target
           r == IF isview
                THEN sub_next(views[target], heap[views[target].base_collection])
                ELSE next(heap[target])
       IN  /\ heap' = IF isview THEN heap ELSE [heap EXCEPT ![target] = r.obj]
           /\ views' = IF isview THEN [views EXCEPT ![target] = r.obj] ELSE views
           /\ loops' = [Disturb(isview, target, l) EXCEPT ![l] =
                           [@ EXCEPT
                              !.out = IF r.status = "ok" THEN Append(@, r.val) ELSE @,
                              !.status = CASE r.status = "ok" -> "running"
                                           [] r.status = "StopIteration" -> "done"
                                           [] OTHER -> r.status]]
           /\ last' = Call("next", r.status, isview, target, OtherKey, None,
                           l, r.val)
    /\ UNCHANGED origin

---------------------------------------------------------------------------
(* Inputs.                                                                 *)

\* Keyword arguments given to CollectionPG(...).
PGFieldSamples ==
    { << >>,
      [n \in {"Psi", "Mss", "Bs_e"} |->
          CASE n = "Psi" -> "x1" [] n = "Mss" -> "x2" [] OTHER -> "x1"],
      [n \in {"zMsp", "Bs_e", "dBp_dz_e", "Br_b", "Bs_p", "Bz_m"} |->
          IF n \in {"zMsp", "Br_b", "Bz_m"} THEN "x1" ELSE "x2"] }

\* The accessors, in the order the views of SpecAlias are taken.
AliasKinds ==
    << "subset_mag", "subset_moments", "subset_B_equator",
       "subset_B_bound", "subset_B_bound_cyl" >>

\* Integer and name keys tried on an instance with the names `names`.
KeysOf(names) ==
    {IntKey(i) : i \in -1..Len(names)}
        \cup {StrKey(s) : s \in Range(names) \cup {"Psi", "Bz_m", "foo"}}

\* Schemas given to LabeledCollection(...).
Schemas ==
    { << >>, <<"a">>, <<"a", "b">>, <<"b", "a">>, <<"a", "b", "c">> }

\* Keyword arguments given to LabeledCollection(...): every assignment of
\* a value to some of the keys a, b, c, zz.
FieldArgs ==
    UNION ( { [keys -> {"x1", "x2"}] : keys \in SUBSET {"a", "b", "zz"} }
              \cup { [keys -> {None, "x2"}] : keys \in {{"c"}, {"a", "c"}} } )

\* Keyword arguments given to CollectionPG(...), with keys outside its schema.
PGFieldArgs ==
    PGFieldSamples
        \cup { [n \in {"Psi", "foo"} |-> "x1"], [n \in {"a"} |-> "x2"] }

\* Functions given to apply: every function on the values, and functions
\* of a name and a value.
Funs == [Vals -> Vals]

ToNone == [v \in Vals |-> None]

AllNames == Range(pg_field_names) \cup {"a", "b", "c"}

MetaFuns ==
    { [nv \in AllNames \X Vals |->
          IF nv[1] \in {"a", "Psi", "Bz_m"} THEN "x2" ELSE nv[2]],
      [nv \in AllNames \X Vals |->
          IF nv[1] \in {"b", "Mss"} THEN nv[2]
          ELSE IF nv[2] = None THEN "x1" ELSE None] }

\* Options given to the iter_name and iter_filter setters.
Options ==
    { [isbool |-> TRUE, b |-> TRUE], [isbool |-> TRUE, b |-> FALSE],
      [isbool |-> FALSE, b |-> FALSE] }

---------------------------------------------------------------------------
(* SpecAlias: one CollectionPG, its five sub-views, and assignments made   *)
(* through the collection and through the views.                           *)

MaxSets == 1

InitAlias ==
    /\ \E f \in PGFieldSamples : heap = << CollectionPG_init(f).obj >>
    /\ views = [k \in 1..Len(AliasKinds) |->
                    LabeledSubCollection_init(1, subset_slice[AliasKinds[k]])]
    /\ origin = << Made("new", 0, pg_field_names) >>
    /\ loops = << >>
    /\ last = NoCall
    /\ budget = MaxSets

NextAlias ==
    \/ \E key \in KeysOf(heap[1]._field_names), val \in Vals :
           Tick /\ SetItem(1, key, val)
    \/ \E v \in 1..Len(views) :
           \E key \in KeysOf(views[v]._sub_names), val \in Vals :
               Tick /\ ViewSetItem(v, key, val)

SpecAlias == InitAlias /\ [][NextAlias]_vars

---------------------------------------------------------------------------
(* C1: aliasing between a CollectionPG and its sub-views.                  *)

\* The ranges of the accessors: [1:], [1:9], [9:14], [14:], [15:].
RangeStart ==
    [ subset_mag |-> 1, subset_moments |-> 1, subset_B_equator |-> 9,
      subset_B_bound |-> 14, subset_B_bound_cyl |-> 15 ]

RangeStop ==
    [ subset_mag |-> 21, subset_moments |-> 9, subset_B_equator |-> 14,
      subset_B_bound |-> 21, subset_B_bound_cyl |-> 21 ]

\* Position (0-based) of each name in the schema of CollectionPG.
PGPos ==
    [name \in Range(pg_field_names) |->
        CHOOSE p \in 0..(Len(pg_field_names) - 1) : pg_field_names[p + 1] = name]

Covers(kind, p) == RangeStart[kind] <= p /\ p < RangeStop[kind]

\* Every view reads, by index and by name, what its base reads.
AliasReads ==
    \A k \in 1..Len(views) :
        LET view == views[k]
            b    == heap[view.base_collection]
            kind == AliasKinds[k]
            lo   == RangeStart[kind]
        IN  /\ view.n_fields = RangeStop[kind] - lo
            /\ \A i \in 0..(view.n_fields - 1) :
                   LET name  == pg_field_names[lo + i + 1]
                       byidx == sub_getitem(view, b, IntKey(i))
                       bynam == sub_getitem(view, b, StrKey(name))
                   IN  /\ byidx = getitem(b, IntKey(lo + i))
                       /\ bynam = getitem(b, StrKey(name))
                       /\ byidx.status = "ok" /\ bynam.status = "ok"

\* The position a successful assignment with an in-range key is meant to
\* write.
WrittenPos(call) ==
    IF call.key.kind = "str" THEN PGPos[call.key.s]
    ELSE IF call.isview
         THEN RangeStart[AliasKinds[call.target]] + call.key.i
         ELSE call.key.i

IsWrite(call) ==
    /\ call.op = "set" /\ call.status = "ok"
    /\ call.key.kind = "int" => call.key.i >= 0

\* The value just assigned is read through the base and through every view
\* covering the name.
ReadBack ==
    IsWrite(last) =>
        LET p    == WrittenPos(last)
            name == pg_field_names[p + 1]
        IN  /\ getitem(heap[1], StrKey(name)).val = last.val
            /\ getitem(heap[1], IntKey(p)).val = last.val
            /\ \A k \in 1..Len(views) :
                   Covers(AliasKinds[k], p) =>
                       /\ sub_getitem(views[k], heap[1], StrKey(name)).val
                              = last.val
                       /\ sub_getitem(views[k], heap[1],
                              IntKey(p - RangeStart[AliasKinds[k]])).val
                              = last.val

\* An assignment changes no slot but the one it writes.
OnlyWritten ==
    (IsWrite(last') /\ budget' # budget) =>
        /\ [heap'[1] EXCEPT !.attrs[pg_field_names[WrittenPos(last') + 1]] = None]
               = [heap[1] EXCEPT !.attrs[pg_field_names[WrittenPos(last') + 1]] = None]
        /\ views' = views

\* C1: after any assignments made through a CollectionPG or its sub-views,
\* a view with range start lo reads view[i] = base[lo + i] and
\* view[name] = base[name]; a value written through one of them is read back
\* through the base and every view covering the name, and no other slot
\* changes.
C1_Aliasing == [](AliasReads /\ ReadBack) /\ [][OnlyWritten]_vars

\* The scenario CollectionPG(Psi, Mss, Bs_e), subset_moments()[0] = x1.
C1_Witness ==
    /\ last.op = "set" /\ last.isview /\ last.status = "ok"
    /\ last.target = 2 /\ last.key = IntKey(0) /\ last.val = "x1"
    /\ heap[1].attrs["Mss"] = "x1"
    /\ heap[1].attrs["Psi"] = "x1" /\ heap[1].attrs["Bs_e"] = "x1"
    /\ heap[1].attrs["Mpp"] = None

---------------------------------------------------------------------------
(* SpecConstruct: constructions of LabeledCollection and CollectionPG.     *)

MaxNew == 1

InitConstruct ==
    /\ heap = << >>
    /\ views = << >>
    /\ origin = << >>
    /\ loops = << >>
    /\ last = NoCall
    /\ budget = MaxNew

NextConstruct ==
    \/ \E names \in Schemas, fields \in FieldArgs :
           Tick /\ NewLabeledCollection(names, fields)
    \/ \E fields \in PGFieldArgs : Tick /\ NewCollectionPG(fields)

SpecConstruct == InitConstruct /\ [][NextConstruct]_vars

\* A construction succeeds exactly when every key of fields is in names, and
\* then every supplied name reads its value and every other name reads None.
ConstructResult ==
    last.op = "new" =>
        LET names  == last.arg.names
            fields == last.arg.fields
        IN  /\ last.status = "ok" <=> DOMAIN fields \subseteq Range(names)
            /\ last.status # "ok" => last.status = "TypeError" /\ last.ret = 0
            /\ last.status = "ok" =>
                   /\ last.ret = Len(heap)
                   /\ heap[last.ret].cls = last.arg.cls
                   /\ \A k \in 1..Len(names) :
                          getitem(heap[last.ret], StrKey(names[k]))
                              = Outcome("ok",
                                    IF names[k] \in DOMAIN fields
                                    THEN fields[names[k]] ELSE None,
                                    heap[last.ret])

\* A failed construction produces no collection; a successful one produces
\* exactly one and leaves the others alone.
ConstructProduces ==
    (last'.op = "new" /\ budget' # budget) =>
        IF last'.status = "ok"
        THEN SubSeq(heap', 1, Len(heap)) = heap /\ Len(heap') = Len(heap) + 1
        ELSE heap' = heap

---------------------------------------------------------------------------
(* SpecSchema: sequences of Get, Set, attribute assignment, Freeze,        *)
(* Iterate, Apply and Copy on a LabeledCollection and on a CollectionPG.   *)

MaxCalls == 3

SchemaSamples ==
    { LabeledCollection_init("LabeledCollection", <<"a", "b">>,
                             [n \in {"a"} |-> "x1"]).obj,
      CollectionPG_init([n \in {"Psi"} |-> "x1"]).obj }

\* Keys and attribute names tried on a collection.
SchemaKeys(self) ==
    { IntKey(0), IntKey(self.n_fields), StrKey(self._field_names[1]),
      StrKey("foo") }

SchemaAttrs(self) == { self._field_names[1], "foo" }

InitSchema ==
    /\ \E c \in SchemaSamples :
          /\ heap = << c >>
          /\ origin = << Made("new", 0, c._field_names) >>
    /\ views = << >>
    /\ loops = << >>
    /\ last = NoCall
    /\ budget = MaxCalls

NextSchema ==
    \/ \E o \in 1..Len(heap) : \E key \in SchemaKeys(heap[o]) :
           Tick /\ GetItem(o, key)
    \/ \E o \in 1..Len(heap) : \E key \in SchemaKeys(heap[o]) :
           Tick /\ SetItem(o, key, "x2")
    \/ \E o \in 1..Len(heap) : \E name \in SchemaAttrs(heap[o]) :
           Tick /\ SetAttr(o, name, "x2")
    \/ \E o \in 1..Len(heap) : Tick /\ Freeze(o)
    \/ \E o \in 1..Len(heap) : \E inplace \in BOOLEAN :
           Tick /\ Apply(o, ToNone, inplace, FALSE)
    \/ \E o \in 1..Len(heap) : Tick /\ Copy(o)
    \/ \E o \in 1..Len(heap) : Tick /\ IterStart(FALSE, o)
    \/ \E l \in 1..Len(loops) : Tick /\ IterNext(l)

SpecSchema == InitSchema /\ [][NextSchema]_vars

\* Every collection has the names and the length it was constructed with,
\* and one slot per name.
SchemaFixed ==
    \A o \in 1..Len(heap) :
        /\ heap[o]._field_names = origin[o].names
        /\ heap[o].n_fields = Len(origin[o].names)
        /\ Cardinality({a \in DOMAIN heap[o].attrs : a \in Range(origin[o].names)})
               = Len(origin[o].names)
        /\ \A name \in DOMAIN heap[o].attrs \ Range(origin[o].names) :
               getitem(heap[o], StrKey(name)).status = "KeyError"

\* A collection is frozen after Freeze, and a CollectionPG always.
Frozen ==
    /\ \A o \in 1..Len(heap) : heap[o].cls = "CollectionPG" => heap[o]._is_locked
    /\ last.op = "freeze" => heap[last.target]._is_locked

\* On a frozen collection, assigning a name of the schema succeeds.
FrozenSetsSchemaName ==
    (last.op = "setattr" /\ heap[last.target]._is_locked
     /\ last.key.s \in Range(origin[last.target].names)) =>
        /\ last.status = "ok"
        /\ getitem(heap[last.target], last.key).val = last.val

\* On a frozen collection, assigning a name that is not in the schema fails.
FrozenRejectsOutside ==
    (last.op = "setattr" /\ heap[last.target]._is_locked
     /\ last.key.s \notin Range(origin[last.target].names)) =>
        last.status = "AttributeError"

\* A frozen collection stays frozen.
StaysFrozen ==
    \A o \in 1..Len(heap) : heap[o]._is_locked => heap'[o]._is_locked

\* On a frozen collection, assigning a name fails exactly when the collection
\* has no attribute of that name yet, and then nothing changes.
FrozenRejectsNew ==
    (last'.op = "setattr" /\ budget' # budget /\ heap[last'.target]._is_locked) =>
        /\ last'.status = "AttributeError"
               <=> last'.key.s \notin DOMAIN heap[last'.target].attrs
        /\ last'.status = "AttributeError" => heap' = heap

---------------------------------------------------------------------------
(* SpecApply: calls of apply, with and without inplace and metadata, on a  *)
(* LabeledCollection and on CollectionPGs, and on the collections that     *)
(* apply returned.                                                         *)

MaxApply == 2

ApplySamples ==
    { LabeledCollection_init("LabeledCollection", <<"a", "b", "c">>,
                             [n \in {"a", "c"} |->
                                 IF n = "a" THEN "x1" ELSE "x2"]).obj }
        \cup { CollectionPG_init(fields).obj : fields \in PGFieldSamples }

\* Functions of one value given to apply.
ApplyFuns ==
    { ToNone,
      [v \in Vals |-> CASE v = None -> "x1" [] v = "x1" -> "x2" [] OTHER -> None],
      [v \in Vals |-> IF v = None THEN None ELSE "x1"] }

InitApply ==
    /\ \E c \in ApplySamples :
          /\ heap = << c >>
          /\ origin = << Made("new", 0, c._field_names) >>
    /\ views = << >>
    /\ loops = << >>
    /\ last = NoCall
    /\ budget = MaxApply

NextApply ==
    \/ \E o \in 1..Len(heap) : \E fun \in ApplyFuns : \E inplace \in BOOLEAN :
           Tick /\ Apply(o, fun, inplace, FALSE)
    \/ \E o \in 1..Len(heap) : \E fun \in MetaFuns : \E inplace \in BOOLEAN :
           Tick /\ Apply(o, fun, inplace, TRUE)

SpecApply == InitApply /\ [][NextApply]_vars

\* What fun returns for the value `item` of the field `name`.
FunOf(arg, name, item) ==
    IF arg.metadata THEN arg.fun[<<name, item>>] ELSE arg.fun[item]

\* Slot i of `result` holds fun of what slot i of `original` held.
SlotsApplied(arg, original, result) ==
    /\ result.n_fields = original.n_fields
    /\ \A i \in 0..(original.n_fields - 1) :
          getitem(result, IntKey(i)).val =
              FunOf(arg, PyIndex(original._field_names, i),
                    getitem(original, IntKey(i)).val)

\* A call of apply without inplace returns a new collection of the class and
\* the schema of the receiver, holding fun of the receiver's slots, and
\* changes no collection there was.
ApplyNew ==
    (last'.op = "apply" /\ budget' # budget /\ ~last'.arg.inplace) =>
        /\ last'.ret = Len(heap) + 1
        /\ Len(heap') = Len(heap) + 1
        /\ \A k \in 1..Len(heap) : heap'[k] = heap[k]
        /\ heap'[last'.ret].cls = heap[last'.target].cls
        /\ heap'[last'.ret]._field_names = heap[last'.target]._field_names
        /\ heap'[last'.ret]._is_locked = (heap[last'.target].cls = "CollectionPG")
        /\ SlotsApplied(last'.arg, heap[last'.target], heap'[last'.ret])

\* A call of apply with inplace returns the receiver, whose slots hold fun
\* of what they held before the call; no other collection changes.
ApplyInPlace ==
    (last'.op = "apply" /\ budget' # budget /\ last'.arg.inplace) =>
        /\ last'.ret = last'.target
        /\ Len(heap') = Len(heap)
        /\ \A k \in 1..Len(heap) : k # last'.target => heap'[k] = heap[k]
        /\ heap'[last'.target].cls = heap[last'.target].cls
        /\ heap'[last'.target]._field_names = heap[last'.target]._field_names
        /\ SlotsApplied(last'.arg, heap[last'.target], heap'[last'.target])

\* C4: apply without inplace returns a new collection with the schema (and
\* the class) of the receiver in which slot i holds fun(original[i]) for
\* every i, and leaves the receiver unchanged; apply with inplace returns the
\* receiver itself, whose slot i then holds fun of the value it held before.
C4_Apply == [][ApplyNew /\ ApplyInPlace]_vars

\* apply without inplace has returned a CollectionPG whose slots differ from
\* the receiver's, and apply with inplace has then changed that result.
C4_Witness ==
    /\ last.op = "apply" /\ last.arg.inplace /\ last.target = 2
    /\ Len(heap) = 2
    /\ heap[2].cls = "CollectionPG"
    /\ heap[1].attrs["Psi"] = "x1"
    /\ heap[2].attrs["Psi"] = None
    /\ heap[2].attrs["Mss"] = "x1"

---------------------------------------------------------------------------
(* SpecDup: copy and generate_collection, and assignments to the           *)
(* collections there are, the sources and the results alike.               *)

MaxDup == 3

DupSamples ==
    { LabeledCollection_init("LabeledCollection", <<"a", "b", "c">>,
                             [n \in {"a", "c"} |->
                                 IF n = "a" THEN "x1" ELSE "x2"]).obj,
      CollectionPG_init(<< >>).obj,
      CollectionPG_init([n \in {"Psi", "Mss", "Bs_e"} |->
          CASE n = "Psi" -> "x1" [] n = "Mss" -> "x2" [] OTHER -> "x1"]).obj }

\* Index arrays given to generate_collection on a collection of n fields:
\* the first fourteen fields (expand_daria_malkus.py), every second field,
\* and an array that is one entry short.
Masks(n) ==
    { [k \in 1..n |-> k <= 14], [k \in 1..n |-> k % 2 = 0],
      [k \in 1..(n - 1) |-> TRUE] }

DupKeys == { IntKey(0), IntKey(-1), StrKey("Bs_e"), StrKey("c") }

InitDup ==
    /\ \E c \in DupSamples :
          /\ heap = << c >>
          /\ origin = << Made("new", 0, c._field_names) >>
    /\ views = << >>
    /\ loops = << >>
    /\ last = NoCall
    /\ budget = MaxDup

NextDup ==
    \/ \E o \in 1..Len(heap) : Tick /\ Copy(o)
    \/ \E o \in 1..Len(heap) : \E index_array \in Masks(heap[o].n_fields) :
           Tick /\ GenerateCollection(o, index_array)
    \/ \E o \in 1..Len(heap) : \E key \in DupKeys : \E val \in {None, "x2"} :
           Tick /\ SetItem(o, key, val)

SpecDup == InitDup /\ [][NextDup]_vars

\* Every slot of `result` holds what the slot of the same name of `source`
\* holds, in the order of the names of `result`.
SameSlots(source, result) ==
    /\ result.n_fields = Len(result._field_names)
    /\ \A i \in 0..(result.n_fields - 1) :
          /\ getitem(result, IntKey(i)).status = "ok"
          /\ getitem(result, IntKey(i)).val =
                 getitem(source, StrKey(PyIndex(result._field_names, i))).val

\* copy returns a new collection of the schema of the original, slot by slot
\* equal to it; the copy of a CollectionPG is a locked CollectionPG of the 21
\* names.  No collection there was changes.
CopyResult ==
    (last'.op = "copy" /\ budget' # budget) =>
        /\ last'.status = "ok"
        /\ last'.ret = Len(heap) + 1
        /\ Len(heap') = Len(heap) + 1
        /\ \A k \in 1..Len(heap) : heap'[k] = heap[k]
        /\ heap'[last'.ret]._field_names = heap[last'.target]._field_names
        /\ SameSlots(heap[last'.target], heap'[last'.ret])
        /\ heap[last'.target].cls = "CollectionPG" =>
              /\ heap'[last'.ret].cls = "CollectionPG"
              /\ heap'[last'.ret]._is_locked
              /\ heap'[last'.ret]._field_names = pg_field_names
              /\ heap'[last'.ret].n_fields = 21

\* An assignment to a collection leaves the collections made from it by
\* `op`, and the collection it was made from by `op`, as they were.
Independent(op) ==
    (last'.op = "set" /\ budget' # budget) =>
        \A k \in 1..Len(heap) :
            (origin[k].op = op /\ k # origin[k].src
             /\ last'.target \in {k, origin[k].src}) =>
                /\ last'.target = k => heap'[origin[k].src] = heap[origin[k].src]
                /\ last'.target = origin[k].src => heap'[k] = heap[k]

\* The collections made by `op` are other collections than their sources.
Fresh(op) ==
    \A k \in 1..Len(heap) : origin[k].op = op => origin[k].src \in 1..(k - 1)

\* C5: copy returns a collection of the same schema whose every slot equals
\* the slot of the original at the call; afterwards an assignment to the
\* copy leaves the original unchanged and an assignment to the original
\* leaves the copy unchanged; the copy of a CollectionPG is a locked
\* CollectionPG of the 21 names.
C5_Copy == []Fresh("copy") /\ [][CopyResult /\ Independent("copy")]_vars

\* An assignment to the copy of a CollectionPG has made it differ from the
\* original.
C5_Witness ==
    /\ last.op = "set" /\ last.status = "ok" /\ last.target = 2
    /\ Len(heap) = 2
    /\ origin[2].op = "copy"
    /\ heap[2].cls = "CollectionPG"
    /\ heap[1].attrs["Bs_e"] = "x1"
    /\ heap[2].attrs["Bs_e"] = "x2"

\* generate_collection with an index array of n_fields entries returns a new
\* LabeledCollection whose names are the names at the true positions, in
\* schema order, each holding what the source held.
GenerateResult ==
    (last'.op = "generate" /\ budget' # budget
     /\ Len(last'.arg) = heap[last'.target].n_fields) =>
        /\ last'.status = "ok"
        /\ last'.ret = Len(heap) + 1
        /\ Len(heap') = Len(heap) + 1
        /\ \A k \in 1..Len(heap) : heap'[k] = heap[k]
        /\ LET names == heap[last'.target]._field_names
               kept  == {k \in 1..Len(names) : last'.arg[k]}
               new_names == heap'[last'.ret]._field_names
           IN  /\ Len(new_names) = Cardinality(kept)
               /\ \A k \in kept :
                     new_names[Cardinality({j \in kept : j <= k})] = names[k]
        /\ SameSlots(heap[last'.target], heap'[last'.ret])

\* C6: for an index array of n_fields entries, generate_collection returns a
\* new collection whose schema is the names at the true positions, in schema
\* order, each holding the value the source held at the call; afterwards an
\* assignment to the result leaves the source unchanged and an assignment
\* to the source leaves the result unchanged.
C6_Generate ==
    []Fresh("generate") /\ [][GenerateResult /\ Independent("generate")]_vars

\* The first fourteen fields of a CollectionPG were taken, and an assignment
\* to the source has then made it differ from the result.
C6_Witness ==
    /\ last.op = "set" /\ last.status = "ok" /\ last.target = 1
    /\ Len(heap) = 2
    /\ origin[2].op = "generate"
    /\ heap[1].cls = "CollectionPG"
    /\ heap[2].n_fields = 14
    /\ heap[2].attrs["Bs_e"] = "x1"
    /\ heap[1].attrs["Bs_e"] = "x2"

---------------------------------------------------------------------------
(* SpecMap: map_collection and map_PG_fields on pairs of collections of    *)
(* equal and of different schemas and lengths.                             *)

MaxMaps == 1

MapSamples ==
    { LabeledCollection_init("LabeledCollection", <<"a", "b">>, fields).obj :
          fields \in [{"a", "b"} -> Vals] }
    \cup { LabeledCollection_init("LabeledCollection", names,
                                  [n \in {"a"} |-> "x1"]).obj :
             names \in { <<"a">>, <<"b", "a">>, <<"a", "b", "c">> } }
    \cup { LabeledCollection_init("LabeledCollection", <<"a", "b", "c">>,
                                  [n \in {"a", "b", "c"} |->
                                      IF n = "b" THEN "x2" ELSE "x1"]).obj }
    \cup { CollectionPG_init(fields).obj : fields \in PGFieldSamples }

InitMap ==
    /\ \E a \in MapSamples : \E b \in MapSamples :
          /\ heap = << a, b >>
          /\ origin = << Made("new", 0, a._field_names),
                         Made("new", 0, b._field_names) >>
    /\ views = << >>
    /\ loops = << >>
    /\ last = NoCall
    /\ budget = MaxMaps

NextMap ==
    \/ \E a \in 1..Len(heap) : \E b \in 1..Len(heap) :
           Tick /\ MapCollection(a, b)
    \/ \E a \in 1..Len(heap) : \E b \in 1..Len(heap) :
           Tick /\ MapPGFields(a, b)

SpecMap == InitMap /\ [][NextMap]_vars

\* The values of the fields of a collection, in schema order.
ValuesOf(self) ==
    [k \in 1..self.n_fields |-> self.attrs[self._field_names[k]]]

\* The last position of `values` that holds v.
LastOf(values, v) ==
    CHOOSE k \in 1..Len(values) :
        /\ values[k] = v
        /\ \A j \in (k + 1)..Len(values) : values[j] # v

\* `dict` has one entry per distinct value among the first n of `keys`, and
\* maps each to what `values` holds at the last position of that key.
PairsLastWins(dict, keys, values, n) ==
    LET firstn == SubSeq(keys, 1, n)
    IN  /\ DOMAIN dict = Range(firstn)
        /\ \A v \in Range(firstn) : dict[v] = values[LastOf(firstn, v)]

\* C7: map_collection fails with AssertionError (SchemaMismatch) whenever the
\* field names of the two collections differ as sequences; when they are
\* equal it returns a mapping with exactly one entry per distinct value of
\* maps_from, each to the value of maps_to at the same name, the last name in
\* schema order winning among names of equal values.
C7_MapByName ==
    last.op = "map_collection" =>
        LET maps_from == heap[last.target]
            maps_to == heap[last.arg]
        IN  IF maps_from._field_names # maps_to._field_names
            THEN last.status = "AssertionError"
            ELSE /\ last.status = "ok"
                 /\ PairsLastWins(last.ret, ValuesOf(maps_from),
                                  ValuesOf(maps_to), maps_from.n_fields)

\* Two names of maps_from hold equal values, maps_to holds different values
\* there, and one entry survives.
C7_Witness ==
    /\ last.op = "map_collection" /\ last.status = "ok"
    /\ last.target = 1 /\ last.arg = 2
    /\ heap[1]._field_names = <<"a", "b">>
    /\ heap[1].attrs["a"] = "x1" /\ heap[1].attrs["b"] = "x1"
    /\ heap[2].attrs["a"] = "x2" /\ heap[2].attrs["b"] = None
    /\ DOMAIN last.ret = {"x1"}
    /\ last.ret["x1"] = None

\* The smaller of two numbers.
Min(m, n) == IF m <= n THEN m ELSE n

\* C8 as claimed: map_PG_fields never raises and always produces
\* min(len(a), len(b)) entries, pairing a[i] with b[i] for i below
\* min(len(a), len(b)), also when b has fewer fields than a.
C8_AsClaimed ==
    last.op = "map_PG_fields" =>
        LET maps_from == heap[last.target]
            maps_to == heap[last.arg]
            n == Min(maps_from.n_fields, maps_to.n_fields)
        IN  /\ last.status = "ok"
            /\ Cardinality(DOMAIN last.ret) = n
            /\ \A k \in 1..n :
                  last.ret[ValuesOf(maps_from)[k]] = ValuesOf(maps_to)[k]

\* C8, amended: map_PG_fields never raises on a schema mismatch; when b has
\* fewer fields than a it fails with IndexError; otherwise it returns one
\* entry per distinct value of a (at most len(a) entries), each mapping a[i]
\* to b[i], the last position winning among positions of equal values, and
\* the fields of b beyond len(a) are ignored.
C8_MapByPosition ==
    last.op = "map_PG_fields" =>
        LET maps_from == heap[last.target]
            maps_to == heap[last.arg]
        IN  IF maps_to.n_fields < maps_from.n_fields
            THEN last.status = "IndexError"
            ELSE /\ last.status = "ok"
                 /\ Cardinality(DOMAIN last.ret) <= maps_from.n_fields
                 /\ PairsLastWins(last.ret, ValuesOf(maps_from),
                                  ValuesOf(maps_to), maps_from.n_fields)

\* Collections of different names were mapped by position, the second one
\* the longer.
C8_Witness ==
    /\ last.op = "map_PG_fields" /\ last.status = "ok"
    /\ last.target = 1 /\ last.arg = 2
    /\ heap[1]._field_names = <<"b", "a">>
    /\ heap[2]._field_names = <<"a", "b", "c">>
    /\ heap[2].attrs["b"] = "x2"
    /\ DOMAIN last.ret = {None, "x1"}
    /\ last.ret[None] = "x1" /\ last.ret["x1"] = "x2"

---------------------------------------------------------------------------
(* SpecIter: for-loops over a collection and over a sub-collection of it.  *)
(* iter_name and iter_filter are set before the loops begin; a loop is     *)
(* iter() followed by calls of next() until one of them raises.            *)

MaxIterCalls == 8

MaxLoops == 2

IterSamples ==
    { LabeledCollection_init("LabeledCollection", <<"a", "b", "c">>,
                             [n \in {"a", "c"} |->
                                 IF n = "a" THEN "x1" ELSE "x2"]).obj,
      CollectionPG_init(<< >>).obj,
      CollectionPG_init([n \in {"Psi", "Mss", "Bs_e"} |->
          CASE n = "Psi" -> "x1" [] n = "Mss" -> "x2" [] OTHER -> "x1"]).obj }

InitIter ==
    /\ \E c \in IterSamples :
          /\ heap = << c >>
          /\ origin = << Made("new", 0, c._field_names) >>
    /\ views = << LabeledSubCollection_init(1,
                     IF heap[1].cls = "CollectionPG"
                     THEN subset_slice["subset_B_equator"]
                     ELSE slice(<<1>>, << >>)) >>
    /\ loops = << >>
    /\ last = NoCall
    /\ budget = MaxIterCalls

\* The collections and the sub-collections there are.
Instances ==
    {<<FALSE, o>> : o \in 1..Len(heap)} \cup {<<TRUE, v>> : v \in 1..Len(views)}

NextIter ==
    \/ \E inst \in Instances : \E option \in Options :
           loops = << >> /\ Tick /\ SetIterName(inst[1], inst[2], option)
    \/ \E inst \in Instances : \E option \in Options :
           loops = << >> /\ Tick /\ SetIterFilter(inst[1], inst[2], option)
    \/ \E inst \in Instances :
           Len(loops) < MaxLoops /\ Tick /\ IterStart(inst[1], inst[2])
    \/ \E l \in 1..Len(loops) : Tick /\ IterNext(l)

SpecIter == InitIter /\ [][NextIter]_vars

\* The pairs <<name, value>> of an instance, in schema order.
PairsOf(isview, target) ==
    IF isview
    THEN LET view == views[target]
         IN  [k \in 1..view.n_fields |->
                 << view._sub_names[k],
                    heap[view.base_collection].attrs[view._sub_names[k]] >>]
    ELSE LET self == heap[target]
         IN  [k \in 1..self.n_fields |->
                 << self._field_names[k], self.attrs[self._field_names[k]] >>]

\* The pairs of the positions a loop over the instance visits: all of them,
\* or with iter_filter the ones that are not None.
IsVisited(pair) == pair[2] # None

VisitedOf(isview, target) ==
    IF Instance(isview, target)._iter_filter
    THEN SelectSeq(PairsOf(isview, target), IsVisited)
    ELSE PairsOf(isview, target)

IsPrefix(s, t) == Len(s) <= Len(t) /\ SubSeq(t, 1, Len(s)) = s

\* A loop that no other call on its instance came across yields `expected`:
\* a part of it while it runs, all of it when it has ended, and it does not
\* end by any exception but StopIteration.
Yields(l, expected) ==
    /\ loops[l].status \in {"running", "done"}
    /\ IsPrefix(loops[l].out, expected)
    /\ loops[l].status = "done" => loops[l].out = expected

\* C9 as claimed: with iter_name, a loop over a collection or a
\* sub-collection yields for each visited position the pair of the name of
\* that position and the value stored under it, in schema order, the last
\* position included, and ends normally after the last position.
C9_AsClaimed ==
    \A l \in 1..Len(loops) :
        (loops[l].clean /\ Instance(loops[l].isview, loops[l].target)._iter_name) =>
            Yields(l, VisitedOf(loops[l].isview, loops[l].target))

\* C10: with iter_filter set and iter_name clear, a loop yields exactly the
\* values that are not None, in schema order; with iter_filter clear it
\* yields all n_fields values, None included; a CollectionPG of unset fields
\* with iter_filter yields no item and the loop ends.
C10_Filter ==
    \A l \in 1..Len(loops) :
        (loops[l].clean /\ ~Instance(loops[l].isview, loops[l].target)._iter_name) =>
            LET visited == VisitedOf(loops[l].isview, loops[l].target)
            IN  Yields(l, [k \in 1..Len(visited) |-> << visited[k][2] >>])

\* A loop over a collection with iter_filter has skipped an unset field
\* between two set ones and has ended.
C10_Witness ==
    \E l \in 1..Len(loops) :
        /\ loops[l].clean /\ ~loops[l].isview /\ loops[l].status = "done"
        /\ heap[loops[l].target]._iter_filter
        /\ ~heap[loops[l].target]._iter_name
        /\ heap[loops[l].target]._field_names = <<"a", "b", "c">>
        /\ loops[l].out = << <<"x1">>, <<"x2">> >>

---------------------------------------------------------------------------
(* SpecKeys: Get and Set, by index, by name and by keys of other kinds, on *)
(* a collection and on sub-collections of it.                              *)

MaxKeyCalls == 3

KeySamples ==
    { LabeledCollection_init("LabeledCollection", <<"a", "b", "c">>,
                             [n \in {"a", "c"} |->
                                 IF n = "a" THEN "x1" ELSE "x2"]).obj,
      CollectionPG_init([n \in {"Psi", "Mss", "Bs_e"} |->
          CASE n = "Psi" -> "x1" [] n = "Mss" -> "x2" [] OTHER -> "x1"]).obj }

\* The slices the sub-collections of SpecKeys are taken with.
KeySlices(self) ==
    IF self.cls = "CollectionPG"
    THEN << subset_slice["subset_moments"], subset_slice["subset_B_bound"] >>
    ELSE << slice(<<1>>, << >>) >>

InitKeys ==
    /\ \E c \in KeySamples :
          /\ heap = << c >>
          /\ origin = << Made("new", 0, c._field_names) >>
    /\ views = [k \in 1..Len(KeySlices(heap[1])) |->
                    LabeledSubCollection_init(1, KeySlices(heap[1])[k])]
    /\ loops = << >>
    /\ last = NoCall
    /\ budget = MaxKeyCalls

\* Keys tried on an instance of n fields: the indices at and next to both
\* ends of the range, names inside and outside the schema, a slice and a key
\* that is neither an integer, a name nor a slice.
ProbeKeys(n) ==
    { IntKey(i) : i \in {-(n + 1), -n, -1, 0, n - 1, n} }
        \cup { StrKey(s) : s \in {"Psi", "Mss", "Bz_m", "a", "c", "foo"} }
        \cup { SliceKey(slice(<<0>>, <<1>>)), OtherKey }

NextKeys ==
    \/ \E o \in 1..Len(heap) : \E key \in ProbeKeys(heap[o].n_fields) :
           Tick /\ GetItem(o, key)
    \/ \E o \in 1..Len(heap) : \E key \in ProbeKeys(heap[o].n_fields) :
           \E val \in {None, "x2"} : Tick /\ SetItem(o, key, val)
    \/ \E v \in 1..Len(views) : \E key \in ProbeKeys(views[v].n_fields) :
           Tick /\ ViewGetItem(v, key)
    \/ \E v \in 1..Len(views) : \E key \in ProbeKeys(views[v].n_fields) :
           \E val \in {None, "x2"} : Tick /\ ViewSetItem(v, key, val)

SpecKeys == InitKeys /\ [][NextKeys]_vars

\* The names of the instance a call was made on, before the call.
NamesOf(isview, target) ==
    IF isview THEN views[target]._sub_names ELSE heap[target]._field_names

\* The key has no entry among `names`: a name that is not one of them, or an
\* index that is neither one of 0..n-1 nor, counted from the end, one of
\* -n..-1.
NoEntry(key, names) ==
    \/ key.kind = "str" /\ \A k \in 1..Len(names) : names[k] # key.s
    \/ key.kind = "int" /\ (key.i >= Len(names) \/ key.i < -Len(names))

\* A Get or a Set with a key that has no entry fails with KeyError or
\* IndexError and changes no slot of any collection.
KeyNotFound ==
    (last'.op \in {"get", "set"} /\ budget' # budget
     /\ NoEntry(last'.key, NamesOf(last'.isview, last'.target))) =>
        /\ last'.status \in {"KeyError", "IndexError"}
        /\ heap' = heap

\* C11: Get or Set with a name that is not in the schema, or with an index
\* out of range (one that addresses no position from either end), fails with
\* KeyNotFound (KeyError, IndexError) and leaves every slot unchanged; on a
\* sub-collection the same holds for a name outside its names, also when the
\* base has that name, and for an index out of its range, and the base is
\* left unchanged.
C11_KeyNotFound == [][KeyNotFound]_vars

\* A Set through a sub-collection with a name that only the base has failed.
C11_Witness ==
    /\ last.op = "set" /\ last.isview /\ last.status = "KeyError"
    /\ last.key.kind = "str" /\ last.key.s = "Psi"
    /\ heap[views[last.target].base_collection].cls = "CollectionPG"
    /\ heap[views[last.target].base_collection].attrs["Psi"] = "x1"
    /\ last.val = "x2"

\* The kinds of keys Get takes, and the kinds Set takes.
GetKinds == {"int", "str", "slice"}

SetKinds == {"int", "str"}

\* A Get or a Set with a key of a kind it does not take raises TypeError and
\* changes no slot.
TypeMismatch ==
    (budget' # budget
     /\ \/ last'.op = "get" /\ last'.key.kind \notin GetKinds
        \/ last'.op = "set" /\ last'.key.kind \notin SetKinds) =>
        /\ last'.status = "TypeError"
        /\ heap' = heap

\* C12 as claimed: a key of an unsupported kind fails with TypeMismatch
\* (TypeError) raised to the caller, for Get and for Set, on a collection and
\* on a sub-collection; a Set with a key that is neither an integer nor a
\* name (a slice included) raises instead of completing silently, and every
\* slot is left unchanged.
C12_AsClaimed == [][TypeMismatch]_vars

---------------------------------------------------------------------------
(* The cursor n_iter under nested loops (SpecIter).                        *)

\* The cursor of an instance; a sub-collection has none before its first
\* __iter__.
CursorOf(hp, vw, inst) ==
    IF inst[1]
    THEN (IF vw[inst[2]].has_n_iter THEN << vw[inst[2]].n_iter >> ELSE << >>)
    ELSE << hp[inst[2]].n_iter >>

\* iter() on an instance puts its cursor at 0, whatever loops run on it.
CursorReset ==
    (last'.op = "iter" /\ budget' # budget) =>
        CursorOf(heap', views', <<last'.isview, last'.target>>) = << 0 >>

\* iter() and next() on an instance leave the cursor of every other
\* instance, its base and its sub-collections included, where it was.
OthersUntouched ==
    (last'.op \in {"iter", "next"} /\ budget' # budget) =>
        \A inst \in Instances :
            inst # <<last'.isview, last'.target>> =>
                CursorOf(heap', views', inst) = CursorOf(heap, views, inst)

\* Loop i is the loop begun last on its instance, and it has run to its end
\* with no other call on the instance in between.
Exhausted(i) ==
    /\ loops[i].clean /\ loops[i].status = "done"
    /\ \A j \in (i + 1)..Len(loops) :
          <<loops[j].isview, loops[j].target>> # <<loops[i].isview, loops[i].target>>

\* Once an inner loop over the same instance is exhausted, the next step of
\* an outer loop ends the outer loop with no further item.
NestedEnds ==
    (last'.op = "next" /\ budget' # budget) =>
        LET o == last'.arg
        IN  (\E i \in (o + 1)..Len(loops) :
                /\ loops[i].isview = loops[o].isview
                /\ loops[i].target = loops[o].target
                /\ Exhausted(i)) =>
                    /\ last'.status = "StopIteration"
                    /\ loops'[o].status = "done"
                    /\ loops'[o].out = loops[o].out

\* Every loop has yielded at most n_fields items.
StepsBounded ==
    \A l \in 1..Len(loops) :
        Len(loops[l].out) <= Instance(loops[l].isview, loops[l].target).n_fields

\* C13 as claimed: iter() on an instance sets its cursor to 0 whatever loop
\* is in progress on it, so an outer loop ends once a nested inner loop over
\* the same instance has exhausted the cursor; iter() and next() on one
\* instance never change the cursor of another instance; and every loop
\* begun on an instance ends after at most n_fields steps.
C13_AsClaimed ==
    /\ []StepsBounded
    /\ [][CursorReset /\ OthersUntouched /\ NestedEnds]_vars

\* The cursor of an instance is one of 0..n_fields.
CursorBounded ==
    \A inst \in Instances :
        \A c \in Range(CursorOf(heap, views, inst)) :
            c \in 0..Instance(inst[1], inst[2]).n_fields

\* A loop that no other call on its instance came across has yielded at most
\* n_fields items.
CleanStepsBounded ==
    \A l \in 1..Len(loops) :
        loops[l].clean =>
            Len(loops[l].out) <= Instance(loops[l].isview, loops[l].target).n_fields

\* A next() that yields an item moves the cursor of its instance forward.
StepAdvances ==
    (last'.op = "next" /\ budget' # budget /\ last'.status = "ok") =>
        LET inst == <<last'.isview, last'.target>>
        IN  CursorOf(heap', views', inst)[1] > CursorOf(heap, views, inst)[1]

\* C13, amended: iter() on an instance sets its cursor to 0 whatever loop is
\* in progress on it, so an outer loop ends at its next step once a nested
\* inner loop over the same instance has exhausted the cursor; iter() and
\* next() on one instance never change the cursor of another instance; the
\* cursor stays within 0..n_fields and every yielding step moves it forward,
\* so at most n_fields items are yielded from an instance between two calls
\* of iter() on it, and a loop that nothing else on its instance disturbs
\* ends after at most n_fields items.
C13_Cursor ==
    /\ [](CursorBounded /\ CleanStepsBounded)
    /\ [][CursorReset /\ OthersUntouched /\ NestedEnds /\ StepAdvances]_vars

\* An outer loop over three fields yielded one item, an inner loop over the
\* same collection then yielded all three, and the outer loop ended there.
C13_Witness ==
    /\ Len(loops) = 2
    /\ ~loops[1].isview /\ ~loops[2].isview
    /\ heap[1].n_fields = 3
    /\ ~loops[1].clean /\ loops[1].status = "done" /\ Len(loops[1].out) = 1
    /\ loops[2].clean /\ loops[2].status = "done" /\ Len(loops[2].out) = 3
    /\ last.op = "next" /\ last.arg = 1

=============================================================================
